---- MODULE Spec2Model ----
(***************************************************************************)
(* Model of the product-catalog service of src/app.py (the relational      *)
(* variant): the tables product and category, and the handlers             *)
(* add_product, update_product, delete_product, add_category and the       *)
(* category_summary query.                                                 *)
(*                                                                         *)
(* A handler is a sequence of database round trips.  Each round trip       *)
(* (a query, or a flush followed by a commit) is one step, a pure operator *)
(* from (database, request) to (database, request).  Spec runs one request *)
(* at a time, each handler from its first line to its return; SpecConc     *)
(* interleaves the round trips of the requests of several workers.         *)
(***************************************************************************)
EXTENDS Integers, Sequences, FiniteSets, TLC

\* ------------------------------------------------------------------ bounds
\* Product ids handed out by the sequence of product.id, one request at a time.
MaxProducts == 2
\* Product ids handed out by the sequence of product.id, concurrent workers.
MaxWorkerProducts == 3
\* Category names that requests carry.
NumCategoryNames == 2

\* ------------------------------------------------------------- JSON values
\* A key that is missing from the request body.
Absent == "<absent>"
\* JSON null (Python None); also SQL NULL in a text column.
JNull == "<null>"
\* category_id of a product without category (SQL NULL).
NoCategory == 0

AllCategoryNames == <<"X", "Y", "Z", "W">>
CategoryNames == {AllCategoryNames[i] : i \in 1..NumCategoryNames}

\* The JSON numbers that requests carry, as written in the body.
NumText == {"-1", "1", "5"}
\* What a column holds when it was given no number.
NoNumber == 0 - 999
NumOf(v) ==
    CASE v = "-1" -> 0 - 1
      [] v = "1"  -> 1
      [] v = "5"  -> 5
      [] OTHER    -> NoNumber

Keys == {"name", "description", "price", "stock", "category"}
EmptyBody == [k \in Keys |-> Absent]

\* `key in data`
Has(body, k) == body[k] # Absent
\* `not data`: no body, or an empty object
NoData(body) == \A k \in Keys : body[k] = Absent

\* float(v) / int(v): ValueError on "abc", TypeError on None
Coerces(v) == v \in NumText

\* ---------------------------------------------------------------- database
\* products, categories: the rows of the two tables
\* product_id_seq, category_id_seq: the last value of each id sequence
\* req: per worker, the request it is serving (pc # "done") or its last response
\* issued: the ids returned with 201 by add_product, in order (history)
VARIABLES products, categories, product_id_seq, category_id_seq, req, issued

vars == <<products, categories, product_id_seq, category_id_seq, req, issued>>

Db == [products |-> products, categories |-> categories,
       pseq |-> product_id_seq, cseq |-> category_id_seq]

Columns == {"name", "description", "price", "stock", "category_id"}

\* Product.query.get(product_id)
GetProduct(db, id) == {p \in db.products : p.id = id}

\* A faulty variant: the lookup by name finds nothing.
FindCategory_none(db, name) == {}

\* Category.query.filter_by(name=...).first()
FindCategory(db, name) == {c \in db.categories : c.name = name}

\* ------------------------------------------------------------ constraints
\* A faulty variant: the column name accepts NULL.
NameRejected_never(v) == FALSE

\* name = db.Column(db.String(100), nullable=False)
NameRejected(v) == v = JNull
\* price = db.Column(db.Float, nullable=False): NULL and non-numeric text fail
PriceRejected(v) == ~Coerces(v)
\* stock = db.Column(db.Integer, default=0): non-numeric text fails
StockRejected(v) == ~Coerces(v)
\* A faulty variant: the column name of category is not unique.
UniqueViolation_off(db, name) == FALSE

\* name = db.Column(db.String(50), unique=True, ...)
UniqueViolation(db, name) == FindCategory(db, name) # {}
\* name = db.Column(db.String(50), unique=True, nullable=False)
CategoryRejected(db, name) == name = JNull \/ UniqueViolation(db, name)

\* A faulty variant: the id after the number of rows, which reuses the ids of deleted rows.
NextProductId_reuse(db) == Cardinality(db.products) + 1

\* id = db.Column(db.Integer, primary_key=True): the next value of the sequence
NextProductId(db) == db.pseq + 1
NextCategoryId(db) == db.cseq + 1

\* ----------------------------------------------------------------- session
\* The pending changes of the session's product: the changed columns and
\* their new values (a column set to the value it was loaded with is no change).
ZeroVals == [name |-> "", description |-> "", price |-> 0, stock |-> 0,
             category_id |-> 0]
NoPending == [cols |-> {}, vals |-> ZeroVals]

Apply(p, pending) ==
    [id |-> p.id,
     name |-> IF "name" \in pending.cols THEN pending.vals.name ELSE p.name,
     description |-> IF "description" \in pending.cols
                     THEN pending.vals.description ELSE p.description,
     price |-> IF "price" \in pending.cols THEN pending.vals.price ELSE p.price,
     stock |-> IF "stock" \in pending.cols THEN pending.vals.stock ELSE p.stock,
     category_id |-> IF "category_id" \in pending.cols
                     THEN pending.vals.category_id ELSE p.category_id]

\* UPDATE product SET <pending> WHERE id = <id>
WriteRow(db, id, pending) ==
    [db EXCEPT !.products =
        {IF p.id = id THEN Apply(p, pending) ELSE p : p \in db.products}]

\* `product.<col> = v` on the product loaded as p
SetColumn(pending, p, col, v) ==
    IF p[col] = v
    THEN pending
    ELSE [cols |-> pending.cols \cup {col},
          vals |-> [pending.vals EXCEPT ![col] = v]]

\* `if 'k' in data: product.k = ...` for the keys of ks, in the handler's order
AssignName(pending, p, body, ks) ==
    IF "name" \in ks /\ Has(body, "name")
    THEN SetColumn(pending, p, "name", body.name) ELSE pending
AssignDescription(pending, p, body, ks) ==
    IF "description" \in ks /\ Has(body, "description")
    THEN SetColumn(pending, p, "description", body.description) ELSE pending
AssignPrice(pending, p, body, ks) ==
    IF "price" \in ks /\ Has(body, "price")
    THEN SetColumn(pending, p, "price", NumOf(body.price)) ELSE pending
\* A faulty variant: product.stock = data.get('stock', 0), whether or not the key is there.
AssignStock_default(pending, p, body, ks) ==
    IF "stock" \in ks
    THEN SetColumn(pending, p, "stock",
                   IF Has(body, "stock") THEN NumOf(body.stock) ELSE 0)
    ELSE pending
AssignStock(pending, p, body, ks) ==
    IF "stock" \in ks /\ Has(body, "stock")
    THEN SetColumn(pending, p, "stock", NumOf(body.stock)) ELSE pending
Assigned(p, body, ks) ==
    AssignStock(AssignPrice(AssignDescription(AssignName(NoPending, p, body, ks),
                                              p, body, ks), p, body, ks), p, body, ks)

\* ---------------------------------------------------------------- requests
Idle == [kind |-> "none", pc |-> "done", status |-> 0, pid |-> 0,
         body |-> EmptyBody, catId |-> 0, pending |-> NoPending,
         flushed |-> FALSE, loadedCat |-> 0, rid |-> 0, rcat |-> 0, made |-> 0]

NewRequest(kind, pid, body) ==
    [Idle EXCEPT !.kind = kind, !.pc = "start", !.pid = pid, !.body = body]

\* The handler returns (or raises): the session is removed with the request,
\* and the worker keeps the response only.
Done(r, status) ==
    [r EXCEPT !.pc = "done", !.status = status, !.catId = 0, !.body = EmptyBody,
              !.pending = NoPending, !.flushed = FALSE, !.loadedCat = 0]

\* A faulty variant: the assignments made before the return reach the table.
Abort_keepsDirty(db, r, status) ==
    [db |-> WriteRow(db, r.pid, r.pending), r |-> Done(r, status)]

\* A return without commit: the session's pending changes are discarded.
Abort(db, r, status) == [db |-> db, r |-> Done(r, status)]

\* ------------------------------------------------------------- add_product
\* A faulty variant: only the key name is required.
MissingData_nameOnly(body) == NoData(body) \/ ~Has(body, "name")

\* `not data or not all(key in data for key in ['name', 'price'])`
MissingData(body) ==
    NoData(body) \/ ~Has(body, "name") \/ ~Has(body, "price")

\* `if category_name:` (data.get('category') is neither None nor '')
Truthy(v) == v # Absent /\ v # JNull /\ v # ""

AP_start(db, r) ==
    IF MissingData(r.body)
    THEN Abort(db, r, 400)
    ELSE IF Truthy(r.body.category)
    THEN LET found == FindCategory(db, r.body.category) IN
         IF found # {}
         THEN [db |-> db,
               r |-> [r EXCEPT !.pc = "insert_product",
                               !.catId = (CHOOSE c \in found : TRUE).id]]
         ELSE [db |-> db, r |-> [r EXCEPT !.pc = "insert_category"]]
    ELSE [db |-> db, r |-> [r EXCEPT !.pc = "insert_product"]]

\* category = Category(name=...); db.session.add(category); db.session.commit()
InsertCategory(db, name) ==
    [db EXCEPT !.categories = @ \cup {[id |-> NextCategoryId(db), name |-> name]},
               !.cseq = NextCategoryId(db)]

AP_insert_category(db, r) ==
    IF CategoryRejected(db, r.body.category)
    THEN Abort(db, r, 500)
    ELSE [db |-> InsertCategory(db, r.body.category),
          r |-> [r EXCEPT !.pc = "insert_product",
                          !.catId = NextCategoryId(db),
                          !.made = NextCategoryId(db)]]

NewProduct(db, body, category_id) ==
    [id |-> NextProductId(db),
     name |-> body.name,
     description |-> IF Has(body, "description") THEN body.description ELSE JNull,
     price |-> NumOf(body.price),
     stock |-> IF Has(body, "stock") THEN NumOf(body.stock) ELSE 0,
     category_id |-> category_id]

ProductRejected(body) ==
    \/ NameRejected(body.name)
    \/ PriceRejected(body.price)
    \/ Has(body, "stock") /\ StockRejected(body.stock)

AP_insert_product(db, r) ==
    IF ProductRejected(r.body)
    THEN Abort(db, r, 500)
    ELSE [db |-> [db EXCEPT !.products = @ \cup {NewProduct(db, r.body, r.catId)},
                            !.pseq = NextProductId(db)],
          r |-> [Done(r, 201) EXCEPT !.rid = NextProductId(db)]]

add_product_step(db, r) ==
    CASE r.pc = "start" -> AP_start(db, r)
      [] r.pc = "insert_category" -> AP_insert_category(db, r)
      [] r.pc = "insert_product" -> AP_insert_product(db, r)

\* ---------------------------------------------------------- update_product
UP_start(db, r) ==
    LET found == GetProduct(db, r.pid) IN
    IF found = {}
    THEN Abort(db, r, 404)
    ELSE LET p == CHOOSE x \in found : TRUE IN
    IF NoData(r.body)
    THEN Abort(db, r, 400)
    ELSE IF Has(r.body, "price") /\ ~Coerces(r.body.price)
    THEN Abort(db, [r EXCEPT !.pending =
                       Assigned(p, r.body, {"name", "description"})], 400)
    ELSE IF Has(r.body, "stock") /\ ~Coerces(r.body.stock)
    THEN Abort(db, [r EXCEPT !.pending =
                       Assigned(p, r.body, {"name", "description", "price"})], 400)
    ELSE [db |-> db,
          r |-> [r EXCEPT !.pending = Assigned(p, r.body, Keys),
                          !.loadedCat = p.category_id,
                          !.pc = IF Has(r.body, "category")
                                 THEN "find_category" ELSE "commit"]]

\* The flush of the session's UPDATE: the row is gone (StaleDataError) or a
\* value is rejected (IntegrityError).
FlushFails(db, r) ==
    /\ r.pending.cols # {}
    /\ \/ GetProduct(db, r.pid) = {}
       \/ "name" \in r.pending.cols /\ NameRejected(r.pending.vals.name)

\* The query of line 148 autoflushes the pending UPDATE first; line 153 then
\* sets category_id on the product as it was loaded.
UP_find_category(db, r) ==
    IF ~r.flushed /\ FlushFails(db, r)
    THEN Abort(db, r, 500)
    ELSE LET found == FindCategory(db, r.body.category)
             f == r.pending.cols # {}
         IN
         IF found # {}
         THEN [db |-> db,
               r |-> [r EXCEPT !.pc = "commit", !.flushed = f,
                        !.pending =
                          SetColumn(r.pending, [category_id |-> r.loadedCat],
                                    "category_id", (CHOOSE c \in found : TRUE).id)]]
         ELSE [db |-> db,
               r |-> [r EXCEPT !.pc = "insert_category", !.flushed = f]]

\* Lines 150-153: the commit of the new category also commits the flushed UPDATE.
UP_insert_category(db, r) ==
    IF CategoryRejected(db, r.body.category)
    THEN Abort(db, r, 500)
    ELSE [db |-> WriteRow(InsertCategory(db, r.body.category), r.pid, r.pending),
          r |-> [r EXCEPT !.pc = "commit", !.flushed = FALSE,
                   !.made = NextCategoryId(db),
                   !.pending = [cols |-> {"category_id"},
                                vals |-> [ZeroVals EXCEPT
                                            !.category_id = NextCategoryId(db)]]]]

\* Lines 155-156: commit, then to_dict() reloads the expired product.
UP_commit(db, r) ==
    IF (~r.flushed /\ FlushFails(db, r)) \/ GetProduct(db, r.pid) = {}
    THEN Abort(db, r, 500)
    ELSE [db |-> WriteRow(db, r.pid, r.pending),
          r |-> [Done(r, 200) EXCEPT !.rid = r.pid]]

update_product_step(db, r) ==
    CASE r.pc = "start" -> UP_start(db, r)
      [] r.pc = "find_category" -> UP_find_category(db, r)
      [] r.pc = "insert_category" -> UP_insert_category(db, r)
      [] r.pc = "commit" -> UP_commit(db, r)

\* ---------------------------------------------------------- delete_product
DP_start(db, r) ==
    IF GetProduct(db, r.pid) = {}
    THEN Abort(db, r, 404)
    ELSE [db |-> db, r |-> [r EXCEPT !.pc = "delete"]]

\* db.session.delete(product); db.session.commit()
DP_delete(db, r) ==
    IF GetProduct(db, r.pid) = {}
    THEN Abort(db, r, 500)
    ELSE [db |-> [db EXCEPT !.products = {p \in @ : p.id # r.pid}],
          r |-> Done(r, 200)]

delete_product_step(db, r) ==
    CASE r.pc = "start" -> DP_start(db, r)
      [] r.pc = "delete" -> DP_delete(db, r)

\* ------------------------------------------------------------ add_category
AC_start(db, r) ==
    IF NoData(r.body) \/ ~Has(r.body, "name")
    THEN Abort(db, r, 400)
    ELSE LET existing_category == FindCategory(db, r.body.name) IN
         IF existing_category # {}
         THEN [db |-> db,
               r |-> [Done(r, 409) EXCEPT
                        !.rcat = (CHOOSE c \in existing_category : TRUE).id]]
         ELSE [db |-> db, r |-> [r EXCEPT !.pc = "insert_category"]]

AC_insert(db, r) ==
    IF CategoryRejected(db, r.body.name)
    THEN Abort(db, r, 500)
    ELSE [db |-> InsertCategory(db, r.body.name),
          r |-> [Done(r, 201) EXCEPT !.rcat = NextCategoryId(db),
                                     !.made = NextCategoryId(db)]]

add_category_step(db, r) ==
    CASE r.pc = "start" -> AC_start(db, r)
      [] r.pc = "insert_category" -> AC_insert(db, r)

\* ----------------------------------------------------------------- queries
\* get_categories: Category.query.all()
get_categories(db) == db.categories

\* get_product_category_summary: Category JOIN Product ON Category.id =
\* Product.category_id, GROUP BY Category.name, count(Product.id)
Joined(db) ==
    {jp \in db.categories \X db.products : jp[1].id = jp[2].category_id}
\* A faulty variant: a LEFT JOIN from category, which keeps the categories without product.
SummaryRows_leftJoin(db) ==
    {[category_name |-> c.name,
      product_count |-> Cardinality({p \in db.products : p.category_id = c.id})] :
        c \in db.categories}
SummaryRows(db) ==
    {[category_name |-> name,
      product_count |->
          Cardinality({jp[2].id : jp \in {x \in Joined(db) : x[1].name = name}})] :
        name \in {jp[1].name : jp \in Joined(db)}}

\* ORDER BY count DESC: every order of the rows with non-increasing counts
\* (the order of rows with equal counts is the database's choice).
Orderings(S) ==
    {q \in [1..Cardinality(S) -> S] :
        /\ \A i, j \in DOMAIN q : i # j => q[i] # q[j]
        /\ \A i, j \in DOMAIN q : i < j => q[i].product_count >= q[j].product_count}
category_summary(db) == Orderings(SummaryRows(db))

\* ---------------------------------------------------------------- stepping
HandlerStep(db, r) ==
    CASE r.kind = "add_product" -> add_product_step(db, r)
      [] r.kind = "update_product" -> update_product_step(db, r)
      [] r.kind = "delete_product" -> delete_product_step(db, r)
      [] r.kind = "add_category" -> add_category_step(db, r)

\* A handler from its first line to its return.
RECURSIVE Run(_, _)
Run(db, r) ==
    IF r.pc = "done" THEN [db |-> db, r |-> r]
    ELSE LET n == HandlerStep(db, r) IN Run(n.db, n.r)

\* ------------------------------------------------------------------ inputs
Bodies(names, descriptions, prices, stocks, cats) ==
    [name : names, description : descriptions, price : prices,
     stock : stocks, category : cats]

\* The request bodies of the product endpoints, one request at a time.
ProductBodies ==
    Bodies({Absent, "a", "", JNull}, {Absent, "d"}, {Absent, "1", "-1", "abc"},
           {Absent, "5", "x"}, {Absent} \cup CategoryNames)

\* The request bodies of the product endpoints of concurrent workers.
WorkerProductBodies ==
    Bodies({"a"}, {Absent}, {"1"}, {Absent}, {Absent} \cup CategoryNames)

\* The request bodies of POST /categories.
CategoryBodies ==
    Bodies({Absent} \cup CategoryNames, {Absent}, {Absent}, {Absent}, {Absent})

ProductIds == 1..MaxProducts
WorkerProductIds == 1..MaxWorkerProducts

\* ------------------------------------------------------------------- state
Workers == {1, 2}

Init ==
    /\ products = {}
    /\ categories = {}
    /\ product_id_seq = 0
    /\ category_id_seq = 0
    /\ req = [s \in Workers |-> Idle]
    /\ issued = <<>>

Commit(s, n) ==
    /\ products' = n.db.products
    /\ categories' = n.db.categories
    /\ product_id_seq' = n.db.pseq
    /\ category_id_seq' = n.db.cseq
    /\ req' = [req EXCEPT ![s] = n.r]
    /\ issued' = IF n.r.kind = "add_product" /\ n.r.status = 201
                 THEN Append(issued, n.r.rid) ELSE issued

\* The sequence of product.id stays within the bound, creates in flight included.
CreatesInFlight ==
    Cardinality({s \in Workers : req[s].kind = "add_product" /\ req[s].pc # "done"})
MayCreate(max) == product_id_seq + CreatesInFlight < max

\* ---------------------------------------------- one request at a time (Spec)
Serve(r) == req[1] = Idle /\ Commit(1, Run(Db, r))

\* The response is sent and the worker takes the next request.
Return ==
    /\ req[1] # Idle
    /\ req' = [req EXCEPT ![1] = Idle]
    /\ UNCHANGED <<products, categories, product_id_seq, category_id_seq, issued>>

add_product ==
    \E body \in ProductBodies :
        MayCreate(MaxProducts) /\ Serve(NewRequest("add_product", 0, body))
update_product ==
    \E id \in ProductIds, body \in ProductBodies :
        Serve(NewRequest("update_product", id, body))
delete_product ==
    \E id \in ProductIds : Serve(NewRequest("delete_product", id, EmptyBody))
add_category ==
    \E body \in CategoryBodies : Serve(NewRequest("add_category", 0, body))

Next == add_product \/ update_product \/ delete_product \/ add_category \/ Return

Spec == Init /\ [][Next]_vars

\* ------------------------------------------- concurrent workers (SpecConc)
\* A flushed, uncommitted UPDATE holds the row lock of its product.
HoldsLock(r, id) ==
    r.pc # "done" /\ r.kind = "update_product" /\ r.flushed /\ r.pid = id

\* The next round trip of r writes the product row.
WritesRow(r) ==
    \/ r.kind = "delete_product" /\ r.pc = "delete"
    \/ /\ r.kind = "update_product" /\ r.pc \in {"find_category", "commit"}
       /\ ~r.flushed /\ r.pending.cols # {}

Blocked(s) ==
    WritesRow(req[s]) /\ \E t \in Workers \ {s} : HoldsLock(req[t], req[s].pid)

Begin(s, r) ==
    /\ req[s].pc = "done"
    /\ req' = [req EXCEPT ![s] = r]
    /\ UNCHANGED <<products, categories, product_id_seq, category_id_seq, issued>>

BeginAddProduct(s) ==
    \E body \in WorkerProductBodies :
        MayCreate(MaxWorkerProducts) /\ Begin(s, NewRequest("add_product", 0, body))
BeginUpdateProduct(s) ==
    \E id \in WorkerProductIds, body \in WorkerProductBodies :
        Begin(s, NewRequest("update_product", id, body))
BeginDeleteProduct(s) ==
    \E id \in WorkerProductIds : Begin(s, NewRequest("delete_product", id, EmptyBody))
BeginAddCategory(s) ==
    \E body \in CategoryBodies : Begin(s, NewRequest("add_category", 0, body))

RoundTrip(s) ==
    /\ req[s].pc # "done"
    /\ ~Blocked(s)
    /\ Commit(s, HandlerStep(Db, req[s]))

NextConc ==
    \E s \in Workers :
        \/ BeginAddProduct(s)
        \/ BeginUpdateProduct(s)
        \/ BeginDeleteProduct(s)
        \/ BeginAddCategory(s)
        \/ RoundTrip(s)

SpecConc == Init /\ [][NextConc]_vars

\* ================================================================== claims
\* The response of `kind` on product `id` with `body`, served in this state.
Served(kind, id, body) == Run(Db, NewRequest(kind, id, body))

Ready == req[1] = Idle

ColumnOf(k) == IF k = "category" THEN "category_id" ELSE k

ProductIdsOf(ps) == {p.id : p \in ps}

\* The ids returned with 201 are pairwise distinct and the stored ids are among them.
C1_IssuedDistinct ==
    /\ \A i, j \in DOMAIN issued : i # j => issued[i] # issued[j]
    /\ \A p, q \in products : p.id = q.id => p = q
    /\ ProductIdsOf(products) \subseteq {issued[i] : i \in DOMAIN issued}
\* A round trip of update_product leaves the set of stored ids as it was.
C1_UpdateKeepsIds ==
    \A s \in Workers :
        (req[s].kind = "update_product" /\ req[s].pc # "done" /\ req'[s] # req[s])
            => ProductIdsOf(products') = ProductIdsOf(products)
\* C1: the ids returned by successful creates are pairwise distinct (deleted
\* products' ids included), no two stored products share an id, and no round
\* trip of update_product changes the set of stored ids.
C1_UniqueIds == [](C1_IssuedDistinct) /\ [][C1_UpdateKeepsIds]_vars
C1_Witness ==
    /\ req[1].kind = "add_product" /\ req[1].status = 201
    /\ req[2].kind = "add_product" /\ req[2].status = 201
    /\ req[1].rid # req[2].rid
    /\ \E i \in DOMAIN issued : issued[i] \notin ProductIdsOf(products)

\* C2: no two category rows have the same name.
C2_CategoryNamesUnique ==
    \A c, d \in categories : c.name = d.name => c = d
C2_Witness ==
    \E s, t \in Workers :
        /\ req[s].kind = "add_category" /\ req[s].status = 500
        /\ req[t].kind = "add_product" /\ req[t].status = 201 /\ req[t].made # 0
        /\ \E c \in categories : c.id = req[t].made

\* C3: a POST /products without body, name or price returns 400 and changes
\* neither table, whatever category it names.
C3_MissingDataRejected ==
    Ready =>
        \A body \in ProductBodies :
            (body = EmptyBody \/ body.name = Absent \/ body.price = Absent) =>
                LET n == Served("add_product", 0, body) IN
                n.r.status = 400 /\ n.db = Db
C3_Witness ==
    /\ req[1].kind = "add_product" /\ req[1].status = 400
    /\ \E body \in ProductBodies :
          /\ body.name = Absent \/ body.price = Absent
          /\ body.category \in CategoryNames
          /\ ~(\E c \in categories : c.name = body.category)
          /\ Served("add_product", 0, body).r = req[1]

\* The body carries a price or a stock that is no number.
BadNumber(body) ==
    \/ Has(body, "price") /\ body.price \notin NumText
    \/ Has(body, "stock") /\ body.stock \notin NumText
\* C4: a PUT on an existing product whose price or stock does not coerce
\* returns 400 and changes neither table.
C4_BadNumberLeavesRecord ==
    Ready =>
        \A id \in ProductIds, body \in ProductBodies :
            ((\E p \in products : p.id = id) /\ BadNumber(body)) =>
                LET n == Served("update_product", id, body) IN
                n.r.status = 400 /\ n.db = Db
C4_Witness ==
    /\ req[1].kind = "update_product" /\ req[1].status = 400
    /\ \E p \in products :
          /\ p.id = req[1].pid
          /\ p.name = "" /\ p.description = JNull

\* C5: a successful PUT keeps every column whose key is absent from the body,
\* and every other product.
C5_AbsentKeysKept ==
    Ready =>
        \A id \in ProductIds, body \in ProductBodies :
            LET n == Served("update_product", id, body) IN
            n.r.status = 200 =>
                /\ ProductIdsOf(n.db.products) = ProductIdsOf(products)
                /\ \A p \in products, q \in n.db.products :
                      p.id = q.id =>
                          IF p.id = id
                          THEN \A k \in Keys :
                                  ~Has(body, k) => q[ColumnOf(k)] = p[ColumnOf(k)]
                          ELSE q = p
C5_Witness ==
    /\ req[1].kind = "update_product" /\ req[1].status = 200
    /\ Cardinality(products) = 2
    /\ \E p \in products :
          /\ p.id = req[1].pid
          /\ p.name = "" /\ p.description = "d" /\ p.price = 0 - 1
          /\ p.stock = 5 /\ p.category_id # NoCategory

\* C6: POST /categories with an existing name returns 409 with the existing
\* record and leaves the categories as they were.
C6_DuplicateCategoryConflict ==
    Ready =>
        \A body \in CategoryBodies :
            (\E c \in categories : c.name = body.name) =>
                LET n == Served("add_category", 0, body) IN
                /\ n.r.status = 409
                /\ \E c \in categories : c.name = body.name /\ c.id = n.r.rcat
                /\ get_categories(n.db) = get_categories(Db)
                /\ Cardinality(get_categories(n.db)) = Cardinality(categories)
C6_Witness ==
    /\ req[1].kind = "add_category" /\ req[1].status = 409
    /\ \E c \in categories : c.id = req[1].rcat
    /\ Cardinality(categories) = 2

RECURSIVE SumCounts(_)
SumCounts(q) ==
    IF q = <<>> THEN 0 ELSE Head(q).product_count + SumCounts(Tail(q))
\* C7: category_summary has exactly one entry per category with a product,
\* each with the number of products of that category; the counts sum to the
\* number of products with a category; the counts do not increase.
C7_SummaryCounts ==
    /\ category_summary(Db) # {}
    /\ \A q \in category_summary(Db) :
          /\ \A c \in categories :
                LET n == Cardinality({p \in products : p.category_id = c.id}) IN
                Cardinality({i \in DOMAIN q : q[i].category_name = c.name})
                    = (IF n > 0 THEN 1 ELSE 0)
          /\ \A i \in DOMAIN q :
                \E c \in categories :
                    /\ c.name = q[i].category_name
                    /\ q[i].product_count =
                          Cardinality({p \in products : p.category_id = c.id})
          /\ SumCounts(q) =
                Cardinality({p \in products : p.category_id # NoCategory})
          /\ \A i, j \in DOMAIN q : i < j => q[i].product_count >= q[j].product_count
C7_Witness ==
    /\ Cardinality(categories) = 2
    /\ Cardinality(products) = 2 /\ product_id_seq = 3
    /\ \E q \in category_summary(Db) : Len(q) = 1 /\ q[1].product_count = 2

\* C8: every POST /products with a valid name and price ends with 201.
C8_CreateAlwaysSucceeds ==
    [][\A s \in Workers :
          (/\ req[s].kind = "add_product" /\ req[s].pc # "done"
           /\ ~MissingData(req[s].body)
           /\ req[s].body.name \in {"a", ""}
           /\ req[s].body.price \in NumText
           /\ req[s].body.stock \in NumText \cup {Absent}
           /\ req'[s].pc = "done")
              => req'[s].status = 201]_vars

\* C9: a product create or update that does not succeed leaves the products
\* and the categories as they were.
C9_NoPartialFailure ==
    [][(/\ req'[1] # req[1]
        /\ req'[1].kind \in {"add_product", "update_product"}
        /\ req'[1].status \notin {200, 201})
           => (products' = products /\ categories' = categories)]_vars

\* C10 (as stated): every stored product has a non-empty name and a
\* non-negative price.
C10_NonEmptyNonNegative ==
    \A p \in products : p.name # "" /\ p.price >= 0
\* C10 (amended): every stored product has a name and a price that are not
\* null; an empty name and a negative price are stored as given.
C10_NotNull ==
    \A p \in products :
        p.name \notin {JNull, Absent} /\ p.price # NoNumber
C10_Witness ==
    \E p \in products : p.name = "" /\ p.price < 0

====
